---- MODULE Spec2Model ----
(***************************************************************************)
(* A model of macs_differs.py: the three key counters                      *)
(*   count_keys                  (transfer matrix, MACS only),             *)
(*   brute                       (exhaustive oracle, all three rules),     *)
(*   count_keys_macs_and_en1303  (level-by-level state-space search).      *)
(* A call either returns an integer or raises; both outcomes are values.   *)
(***************************************************************************)
EXTENDS Integers, Sequences, FiniteSets, TLC

\* Largest key length, alphabet size and MACS the inputs are drawn from.
MaxN == 5
MaxD == 3
MaxMacs == 2

\* Python's None, as a value that is no depth (depths are 0..d-1).
None == 0 - 1

VARIABLES n, d, macs, pc, ck, br, cc,
          i, q, id_to_state, paths,
          new_q, new_state_to_id, new_id_to_state, new_paths, pbar2

vars == <<n, d, macs, pc, ck, br, cc, i, q, id_to_state, paths,
          new_q, new_state_to_id, new_id_to_state, new_paths, pbar2>>

\* The outcome of a call: a returned integer, or a raised exception.
Pending == [kind |-> "pending", value |-> 0 - 1, exc |-> ""]
Return(v) == [kind |-> "return", value |-> v, exc |-> ""]
Raise(e) == [kind |-> "raise", value |-> 0 - 1, exc |-> e]

abs(x) == IF x < 0 THEN 0 - x ELSE x

\* sum of f over the members of S (integers) that lie in lo..hi
RECURSIVE SumRange(_, _, _, _)
SumRange(f, S, lo, hi) ==
  IF lo > hi THEN 0
  ELSE IF lo = hi THEN (IF lo \in S THEN f[lo] ELSE 0)
  ELSE LET mid == (lo + hi) \div 2
       IN SumRange(f, S, lo, mid) + SumRange(f, S, mid + 1, hi)

\* sum of f over a finite set S of integers
SumOver(f, S) ==
  IF S = {} THEN 0
  ELSE SumRange(f, S, CHOOSE x \in S : \A y \in S : x <= y,
                      CHOOSE x \in S : \A y \in S : x >= y)

sum(f) == SumOver(f, DOMAIN f)

(***************************************************************************)
(* count_keys                                                              *)
(***************************************************************************)
\* Variant: the adjacency test made strict.
AdjacencyMatrix_strict(k, m) ==
  [r \in 0..(k - 1) |-> [c \in 0..(k - 1) |-> IF abs(r - c) < m THEN 1 ELSE 0]]

\* A = np.fromfunction(lambda i, j: abs(i - j) <= macs, (k, k)); a true
\* entry counts as 1 in the products and sums that follow.
AdjacencyMatrix(k, m) ==
  [r \in 0..(k - 1) |-> [c \in 0..(k - 1) |-> IF abs(r - c) <= m THEN 1 ELSE 0]]

eye(k) ==
  [r \in 0..(k - 1) |-> [c \in 0..(k - 1) |-> IF r = c THEN 1 ELSE 0]]

\* exact integer matrix product (numpy.dot on object arrays)
dot(X, Y) ==
  [r \in DOMAIN X |->
     [c \in DOMAIN X |-> SumOver([l \in DOMAIN X |-> X[r][l] * Y[l][c]], DOMAIN X)]]

\* the binary decomposition loop of numpy.linalg.matrix_power; z = None is
\* modelled by first = TRUE, result = None by have = FALSE.
RECURSIVE BinPow(_, _, _, _, _, _)
BinPow(a, z, first, result, have, e) ==
  IF e <= 0 THEN result
  ELSE LET z2 == IF first THEN a ELSE dot(z, z)
           bit == e % 2
           r2 == IF bit = 1 THEN (IF have THEN dot(result, z2) ELSE z2) ELSE result
       IN BinPow(a, z2, FALSE, r2, have \/ bit = 1, e \div 2)

\* numpy.linalg.matrix_power(a, e) for e >= 0
matrix_power(a, e) ==
  IF e = 0 THEN eye(Cardinality(DOMAIN a))
  ELSE IF e = 1 THEN a
  ELSE IF e = 2 THEN dot(a, a)
  ELSE IF e = 3 THEN dot(dot(a, a), a)
  ELSE BinPow(a, a, TRUE, a, FALSE, e)

MatrixSum(X) == SumOver([r \in DOMAIN X |-> sum(X[r])], DOMAIN X)

\* Variant: the matrix raised to the power n instead of n - 1.
count_keys_power_n(bitting_positions, bitting_depths, m) ==
  IF bitting_positions = 0 THEN Return(1)
  ELSE IF bitting_positions - 1 < 0 THEN Raise("TypeError")
  ELSE Return(MatrixSum(matrix_power(AdjacencyMatrix(bitting_depths, m),
                                     bitting_positions)))

\* A negative exponent makes matrix_power invert A, which numpy.linalg
\* refuses for an object array (TypeError).
count_keys(bitting_positions, bitting_depths, m) ==
  IF bitting_positions = 0 THEN Return(1)
  ELSE IF bitting_positions - 1 < 0 THEN Raise("TypeError")
  ELSE Return(MatrixSum(matrix_power(AdjacencyMatrix(bitting_depths, m),
                                     bitting_positions - 1)))

(***************************************************************************)
(* brute                                                                   *)
(***************************************************************************)
\* number of positions of t holding depth b
Freq(t, b) == Cardinality({p \in DOMAIN t : t[p] = b})

good(t, len, m) ==
  /\ \A b \in {t[p] : p \in DOMAIN t} : ~(2 * Freq(t, b) > len)
  /\ \A p \in 1..(len - 1) : ~(abs(t[p] - t[p + 1]) > m)
  /\ \A p \in 1..(len - 2) : ~(t[p] = t[p + 1] /\ t[p + 1] = t[p + 2])

\* itertools.product(range(k), repeat=len) raises ValueError for len < 0.
brute(len, k, m) ==
  IF len < 0 THEN Raise("ValueError")
  ELSE Return(Cardinality({t \in [1..len -> 0..(k - 1)] : good(t, len, m)}))

(***************************************************************************)
(* count_keys_macs_and_en1303                                              *)
(***************************************************************************)
\* A state is <<freqs, <<d1, d2>>>>; freqs[b + 1] is the frequency of depth b.
initial_state(k) == <<[b \in 1..k |-> 0], <<None, None>>>>

\* Variant: the frequency cap tested on the frequency before the new cut.
Skips_cap_before(len, m, state, b) ==
  LET freqs == state[1]
      d1 == state[2][1]
      d2 == state[2][2]
  IN \/ (d1 = d2 /\ d2 = b)
     \/ (d2 # None /\ abs(d2 - b) > m)
     \/ 2 * freqs[b + 1] > len

\* Variant: the frequency cap left out.
Skips_no_cap(len, m, state, b) ==
  LET d1 == state[2][1]
      d2 == state[2][2]
  IN \/ (d1 = d2 /\ d2 = b)
     \/ (d2 # None /\ abs(d2 - b) > m)

\* Whether neighbors(state) skips the candidate depth b ("continue").
Skips(len, m, state, b) ==
  LET freqs == state[1]
      d1 == state[2][1]
      d2 == state[2][2]
  IN \/ (d1 = d2 /\ d2 = b)
     \/ (d2 # None /\ abs(d2 - b) > m)
     \/ 2 * (freqs[b + 1] + 1) > len

\* The state reached by adding the cut b at the end.
next_state(state, b) ==
  <<[state[1] EXCEPT ![b + 1] = @ + 1], <<state[2][2], b>>>>

\* The states neighbors(state) yields, in the order it yields them.
RECURSIVE NeighborsFrom(_, _, _, _, _)
NeighborsFrom(len, k, m, state, b) ==
  IF b >= k THEN <<>>
  ELSE IF Skips(len, m, state, b) THEN NeighborsFrom(len, k, m, state, b + 1)
  ELSE <<next_state(state, b)>> \o NeighborsFrom(len, k, m, state, b + 1)

neighbors(len, k, m, state) ==
  IF sum(state[1]) = len THEN <<>>
  ELSE NeighborsFrom(len, k, m, state, 0)

\* Variant: the count assigned instead of added.
Accumulate_overwrite(np, v_id, c) ==
  IF v_id \in DOMAIN np THEN [np EXCEPT ![v_id] = c]
  ELSE np @@ (v_id :> c)

\* new_paths[v_id] += c on a defaultdict(int)
Accumulate(np, v_id, c) ==
  IF v_id \in DOMAIN np THEN [np EXCEPT ![v_id] = @ + c]
  ELSE np @@ (v_id :> (0 + c))

\* The next level's tables, as one record.
NewTables(nq, ns2i, ni2s, np) ==
  [new_q |-> nq, new_state_to_id |-> ns2i, new_id_to_state |-> ni2s, new_paths |-> np]

EmptyTables == NewTables(<<>>, <<>>, <<>>, <<>>)

\* The body of "for v in neighbors(u)" for one v.
VisitOne(new, v, c) ==
  LET known == v \in DOMAIN new.new_state_to_id
      v_id == IF known THEN new.new_state_to_id[v]
              ELSE Cardinality(DOMAIN new.new_state_to_id)
  IN NewTables(IF known THEN new.new_q ELSE Append(new.new_q, v_id),
               IF known THEN new.new_state_to_id ELSE new.new_state_to_id @@ (v :> v_id),
               IF known THEN new.new_id_to_state ELSE new.new_id_to_state @@ (v_id :> v),
               Accumulate(new.new_paths, v_id, c))

\* "for v in neighbors(u)" over the yielded states vs, from position p on.
RECURSIVE VisitAll(_, _, _, _)
VisitAll(new, vs, p, c) ==
  IF p > Len(vs) THEN new
  ELSE VisitAll(VisitOne(new, vs[p], c), vs, p + 1, c)

\* One iteration of "while q" for the popped id u_id.
PopVisit(len, k, m, u_id, i2s, pth, new) ==
  VisitAll(new, neighbors(len, k, m, i2s[u_id]), 1, pth[u_id])

\* The iterations of "while q" that pop qq[hi], then qq[hi - 1], ... down to
\* qq[lo] (q.pop() takes the last element); the range is halved to keep the
\* evaluation shallow.
RECURSIVE WhileRange(_, _, _, _, _, _, _, _, _)
WhileRange(len, k, m, qq, lo, hi, i2s, pth, new) ==
  IF lo > hi THEN new
  ELSE IF lo = hi THEN PopVisit(len, k, m, qq[lo], i2s, pth, new)
  ELSE LET mid == (lo + hi) \div 2
           upper == WhileRange(len, k, m, qq, mid + 1, hi, i2s, pth, new)
       IN \* the test only makes the evaluator compute upper before going on
          IF Len(upper.new_q) >= 0
          THEN WhileRange(len, k, m, qq, lo, mid, i2s, pth, upper)
          ELSE upper

\* The whole "while q" loop of one level.
WhileLoop(len, k, m, qq, i2s, pth, new) ==
  WhileRange(len, k, m, qq, 1, Len(qq), i2s, pth, new)

\* "for i in range(n)" from level lvl on; the result is the last level's
\* paths table and whether pbar2 was ever bound.
RECURSIVE ForLoop(_, _, _, _, _, _, _, _)
ForLoop(len, k, m, lvl, qq, i2s, pth, bound) ==
  IF lvl >= len THEN [paths |-> pth, pbar2 |-> bound]
  ELSE LET new == WhileLoop(len, k, m, qq, i2s, pth, EmptyTables)
       IN ForLoop(len, k, m, lvl + 1, new.new_q, new.new_id_to_state, new.new_paths, TRUE)

\* pbar2.close() after the loop reads a local that only the loop body binds;
\* then return sum(paths.values()).
Finish(pth, bound) ==
  IF ~bound THEN Raise("UnboundLocalError") ELSE Return(sum(pth))

count_keys_macs_and_en1303(len, k, m) ==
  LET r == ForLoop(len, k, m, 0, <<0>>, (0 :> initial_state(k)), (0 :> 1), FALSE)
  IN Finish(r.paths, r.pbar2)

(***************************************************************************)
(* The calls, as steps.                                                    *)
(***************************************************************************)
Init ==
  /\ n \in (0 - 1)..MaxN
  /\ d \in 0..MaxD
  /\ macs \in (0 - 1)..MaxMacs
  /\ pc = "count_keys"
  /\ ck = Pending /\ br = Pending /\ cc = Pending
  /\ i = 0
  /\ q = <<>> /\ id_to_state = <<>> /\ paths = <<>>
  /\ new_q = <<>> /\ new_state_to_id = <<>> /\ new_id_to_state = <<>>
  /\ new_paths = <<>>
  /\ pbar2 = FALSE

locals == <<i, q, id_to_state, paths, new_q, new_state_to_id, new_id_to_state,
            new_paths, pbar2>>

CallCountKeys ==
  /\ pc = "count_keys"
  /\ ck' = count_keys(n, d, macs)
  /\ pc' = "brute"
  /\ UNCHANGED <<n, d, macs, br, cc, locals>>

CallBrute ==
  /\ pc = "brute"
  /\ br' = brute(n, d, macs)
  /\ pc' = "enter"
  /\ UNCHANGED <<n, d, macs, ck, cc, locals>>

\* lines 78-83 and 115: the level-0 tables
Enter ==
  /\ pc = "enter"
  /\ id_to_state' = (0 :> initial_state(d))
  /\ paths' = (0 :> 1)
  /\ q' = <<0>>
  /\ i' = 0
  /\ pc' = "for"
  /\ UNCHANGED <<n, d, macs, ck, br, cc, new_q, new_state_to_id, new_id_to_state,
                 new_paths, pbar2>>

\* the head of "for i in range(n)" with a level left: fresh next-level tables
ForBegin ==
  /\ pc = "for"
  /\ i < n
  /\ new_q' = <<>> /\ new_state_to_id' = <<>> /\ new_id_to_state' = <<>>
  /\ new_paths' = <<>>
  /\ pbar2' = TRUE
  /\ pc' = "while"
  /\ UNCHANGED <<n, d, macs, ck, br, cc, i, q, id_to_state, paths>>

\* one iteration of "while q"
Pop ==
  /\ pc = "while"
  /\ q # <<>>
  /\ LET new == PopVisit(n, d, macs, q[Len(q)], id_to_state, paths,
                         NewTables(new_q, new_state_to_id, new_id_to_state, new_paths))
     IN /\ new_q' = new.new_q
        /\ new_state_to_id' = new.new_state_to_id
        /\ new_id_to_state' = new.new_id_to_state
        /\ new_paths' = new.new_paths
  /\ q' = SubSeq(q, 1, Len(q) - 1)
  /\ UNCHANGED <<n, d, macs, pc, ck, br, cc, i, id_to_state, paths, pbar2>>

\* "while q" ends: the next level's tables become the current ones
LevelEnd ==
  /\ pc = "while"
  /\ q = <<>>
  /\ q' = new_q
  /\ id_to_state' = new_id_to_state
  /\ paths' = new_paths
  /\ i' = i + 1
  /\ pc' = "for"
  /\ UNCHANGED <<n, d, macs, ck, br, cc, new_q, new_state_to_id, new_id_to_state,
                 new_paths, pbar2>>

\* range(n) is exhausted: pbar2.close() and the return
ForExit ==
  /\ pc = "for"
  /\ i >= n
  /\ cc' = Finish(paths, pbar2)
  /\ pc' = "done"
  /\ UNCHANGED <<n, d, macs, ck, br, locals>>

Next ==
  \/ CallCountKeys
  \/ CallBrute
  \/ Enter
  \/ ForBegin
  \/ Pop
  \/ LevelEnd
  \/ ForExit

Spec == Init /\ [][Next]_vars

Valid == n >= 0 /\ d >= 1 /\ macs >= 0

TypeOK == pc \in {"count_keys", "brute", "enter", "for", "while", "done"}

(***************************************************************************)
(* The properties.                                                         *)
(***************************************************************************)
\* all depth sequences of length len over k depths
AllSequences(len, k) == [1..len -> 0..(k - 1)]

MacsOk(t, m) == \A p \in 1..(Len(t) - 1) : abs(t[p] - t[p + 1]) <= m

NoTriple(t) == \A p \in 1..(Len(t) - 2) : ~(t[p] = t[p + 1] /\ t[p + 1] = t[p + 2])

\* no depth used more than len/2 times, len being the final key length
CapOk(t, len, k) == \A b \in 0..(k - 1) : 2 * Freq(t, b) <= len

\* the state a partial key t is in
StateOf(t, k) ==
  <<[b \in 1..k |-> Freq(t, b - 1)],
    <<IF Len(t) >= 2 THEN t[Len(t) - 1] ELSE None,
      IF Len(t) >= 1 THEN t[Len(t)] ELSE None>>>>

\* the legal partial keys of length lvl of a key of final length n
LegalPrefixes(lvl) ==
  {t \in AllSequences(lvl, d) : MacsOk(t, macs) /\ NoTriple(t) /\ CapOk(t, n, d)}

\* C1: for valid inputs the state-space counter returns the same integer as
\* the brute-force oracle.
C1_SameAsBrute ==
  (pc = "done" /\ Valid) =>
     (cc.kind = "return" /\ br.kind = "return" /\ cc.value = br.value)

\* C2: for valid inputs count_keys returns at least what the state-space
\* counter returns.
C2_AdjacencyIsUpperBound ==
  (pc = "done" /\ Valid) =>
     (ck.kind = "return" /\ cc.kind = "return" /\ ck.value >= cc.value)

\* C3: for n = 0 and valid d, macs both count_keys and the state-space
\* counter complete normally with the value 1.
C3_BaseCase ==
  (pc = "done" /\ Valid /\ n = 0) => (ck = Return(1) /\ cc = Return(1))

\* C4: with an invalid parameter (n < 0, d < 1 or macs < 0) each of the three
\* functions fails with InvalidParameter and never returns a count.
C4_InvalidParameterRejected ==
  (pc = "done" /\ ~Valid) =>
     (/\ ck = Raise("InvalidParameter")
      /\ br = Raise("InvalidParameter")
      /\ cc = Raise("InvalidParameter"))

\* C5: for valid inputs count_keys returns the number of length-n sequences
\* over the depths 0..d-1 whose adjacent depths differ by at most macs.
C5_CountKeysCountsMacsSequences ==
  (pc = "brute" /\ Valid) =>
     ck = Return(Cardinality({t \in AllSequences(n, d) : MacsOk(t, macs)}))

C5_Witness ==
  /\ pc = "brute" /\ Valid /\ n = 5 /\ d = 3 /\ macs = 1
  /\ ck.kind = "return" /\ ck.value > d /\ ck.value < 243

\* C6: for valid n, d and macs1 <= macs, neither count_keys nor the
\* state-space counter returns more for macs1 than for macs.
C6_MonotoneInMacs ==
  (pc = "done" /\ Valid) =>
     \A macs1 \in 0..macs :
        /\ count_keys(n, d, macs1).kind = "return" /\ ck.kind = "return"
        /\ count_keys(n, d, macs1).value <= ck.value
        /\ count_keys_macs_and_en1303(n, d, macs1).kind = "return"
        /\ cc.kind = "return"
        /\ count_keys_macs_and_en1303(n, d, macs1).value <= cc.value

\* C7: with one depth (d = 1) and macs >= 0 the state-space counter returns 0
\* for every n >= 1.
C7_SingleDepthIsZero ==
  (pc = "done" /\ d = 1 /\ n >= 1 /\ macs >= 0) => cc = Return(0)

C7_Witness ==
  /\ pc = "done" /\ d = 1 /\ n = 2 /\ macs >= 0 /\ cc = Return(0)

\* C8 as stated: for n = 3, d = 2, macs = 1 both count_keys and the
\* state-space counter return 0.
C8_BothZero ==
  (pc = "done" /\ n = 3 /\ d = 2 /\ macs = 1) => (ck = Return(0) /\ cc = Return(0))

\* C8 as amended: for n = 3, d = 2, macs = 1 the state-space counter returns 0
\* and count_keys returns 8, the number of sequences the MACS rule alone allows.
C8_ConstrainedZeroAdjacencyEight ==
  (pc = "done" /\ n = 3 /\ d = 2 /\ macs = 1) => (cc = Return(0) /\ ck = Return(8))

C8_Witness ==
  /\ pc = "done" /\ n = 3 /\ d = 2 /\ macs = 1
  /\ cc.kind = "return" /\ ck.kind = "return"

\* the transitions out of the current level: <<u_id, v>> for every state v
\* that neighbors yields for the state with id u_id
Transitions ==
  UNION {{<<u_id, neighbors(n, d, macs, id_to_state[u_id])[p]>> :
             p \in DOMAIN neighbors(n, d, macs, id_to_state[u_id])} :
         u_id \in DOMAIN id_to_state}

\* C9: after i iterations of the level loop the path count of every state in
\* the level table is the number of legal length-i partial keys in that state,
\* and once a level is fully expanded every successor's count is the sum of
\* the counts of the states that transition into it.
C9_PathCountIsNumberOfPrefixes ==
  /\ (pc = "for" /\ Valid) =>
        (/\ DOMAIN paths = DOMAIN id_to_state
         /\ LET legal == {<<t, StateOf(t, d)>> : t \in LegalPrefixes(i)}
            IN \A id \in DOMAIN id_to_state :
                 paths[id] = Cardinality({x \in legal : x[2] = id_to_state[id]}))
  /\ (pc = "while" /\ q = <<>> /\ Valid) =>
        (/\ DOMAIN new_paths = DOMAIN new_id_to_state
         /\ LET edges == Transitions
            IN \A v_id \in DOMAIN new_id_to_state :
                 new_paths[v_id] =
                   SumOver(paths, {e[1] : e \in {x \in edges : x[2] = new_id_to_state[v_id]}}))

C9_Witness ==
  /\ pc = "for" /\ Valid /\ i = n /\ n >= 4
  /\ \E id \in DOMAIN paths : paths[id] >= 2
  /\ \E id \in DOMAIN paths : paths[id] = 1

\* C10: in every state of a level table at level i, the frequencies sum to at
\* most i, i is at most n, and no frequency exceeds n/2.
C10_FrequencyInvariant ==
  /\ (pc \in {"for", "while", "done"} /\ Valid) =>
        (/\ i <= n
         /\ \A id \in DOMAIN id_to_state :
              /\ sum(id_to_state[id][1]) <= i
              /\ \A b \in DOMAIN id_to_state[id][1] : 2 * id_to_state[id][1][b] <= n)
  /\ (pc = "while" /\ Valid) =>
        (/\ i + 1 <= n
         /\ \A id \in DOMAIN new_id_to_state :
              /\ sum(new_id_to_state[id][1]) <= i + 1
              /\ \A b \in DOMAIN new_id_to_state[id][1] :
                   2 * new_id_to_state[id][1][b] <= n)

C10_Witness ==
  /\ pc = "for" /\ Valid /\ i = n /\ n = 4
  /\ \E id \in DOMAIN id_to_state :
       /\ sum(id_to_state[id][1]) = n
       /\ \E b \in DOMAIN id_to_state[id][1] : 2 * id_to_state[id][1][b] = n

====
